---------------------------- MODULE Spec2Model ----------------------------
(* A model of the ai-research-agent command-line program:                  *)
(*   src/src/agent.rs  ResearchAgent (chat, clear_history, quick_search)   *)
(*   src/src/main.rs   main, run_interactive, handle_result                *)
(*                                                                         *)
(* A string is a sequence of fragments (TLA+ strings); the string it       *)
(* stands for is the concatenation of its fragments.  Input lines and      *)
(* queries are split into single characters, so that trim and              *)
(* to_lowercase are computed character by character.                       *)
EXTENDS Integers, Sequences, FiniteSets, TLC

(* ------------------------------ bounds --------------------------------- *)
\* number of operations the API harness issues on one agent
MaxCalls == 3
\* number of lines the interactive loop reads before its input ends
MaxLines == 3
\* number of results the search adapter returns at most
MaxResults == 2

(* ------------------------------ strings -------------------------------- *)
Upper == <<"A","B","C","D","E","F","G","H","I","J","K","L","M",
           "N","O","P","Q","R","S","T","U","V","W","X","Y","Z">>
Lower == <<"a","b","c","d","e","f","g","h","i","j","k","l","m",
           "n","o","p","q","r","s","t","u","v","w","x","y","z">>

\* char::is_whitespace, on the characters the model uses
IsWhitespace(c) == c \in {" ", "\t", "\n", "\r"}

\* char::to_lowercase
ToLowerChar(c) ==
  IF \E i \in 1..Len(Upper) : Upper[i] = c
  THEN Lower[CHOOSE i \in 1..Len(Upper) : Upper[i] = c]
  ELSE c

\* str::to_lowercase
to_lowercase(s) == [i \in 1..Len(s) |-> ToLowerChar(s[i])]

RECURSIVE TrimStart(_)
TrimStart(s) ==
  IF s # <<>> /\ IsWhitespace(Head(s)) THEN TrimStart(Tail(s)) ELSE s

RECURSIVE TrimEnd(_)
TrimEnd(s) ==
  IF s # <<>> /\ IsWhitespace(s[Len(s)])
  THEN TrimEnd(SubSeq(s, 1, Len(s) - 1))
  ELSE s

\* str::trim
trim(s) == TrimEnd(TrimStart(s))

\* str::contains, on fragments: sub occurs in s as a run of fragments
Contains(s, sub) ==
  \E i \in 1..(Len(s) - Len(sub) + 1) : SubSeq(s, i, i + Len(sub) - 1) = sub

\* str::replace(from, to) for a one-fragment pattern: every occurrence of
\* the fragment is replaced, the inserted text is not scanned again
RECURSIVE Replace(_, _, _)
Replace(s, from, to) ==
  IF s = <<>> THEN <<>>
  ELSE (IF Head(s) = from THEN to ELSE <<Head(s)>>)
       \o Replace(Tail(s), from, to)

\* [&str]::join
RECURSIVE Join(_, _)
Join(parts, sep) ==
  IF parts = <<>> THEN <<>>
  ELSE IF Len(parts) = 1 THEN parts[1]
  ELSE parts[1] \o sep \o Join(Tail(parts), sep)

(* --------------------------- Result<String> ---------------------------- *)
Ok(v) == [ok |-> TRUE, val |-> v]
Err(e) == [ok |-> FALSE, val |-> e]
NoResult == [ok |-> TRUE, val |-> <<>>]

(* ------------------------------ agent.rs ------------------------------- *)
HistoryPlaceholder == "{history}"

CHAT_SYSTEM_PROMPT ==
  << "\nYou are an AI research assistant. [...]\n\nCONVERSATION HISTORY:\n",
     HistoryPlaceholder,
     "\n\nWhen the user asks a question: [...]\n" >>

NoPreviousConversation == <<"No previous conversation.">>

\* the turn budget chat passes to the completion backend
multi_turn_6 == 5 + 1
multi_turn == 5

\* format!("[Turn {}]\nUser: {}\nAI: {}", i + 1, q, a), i the 0-based index
FormatTurn0(i, turn) ==
  <<"[Turn ", ToString(i), "]\nUser: ">> \o turn[1] \o <<"\nAI: ">> \o turn[2]
FormatTurn(i, turn) ==
  <<"[Turn ", ToString(i + 1), "]\nUser: ">> \o turn[1] \o <<"\nAI: ">> \o turn[2]

\* the history block of chat
EmptyHistoryAsEmptyString(h) ==
  Join([k \in 1..Len(h) |-> FormatTurn(k - 1, h[k])], <<"\n\n">>)
HistoryStr(h) ==
  IF h = <<>> THEN NoPreviousConversation
  ELSE Join([k \in 1..Len(h) |-> FormatTurn(k - 1, h[k])], <<"\n\n">>)

\* CHAT_SYSTEM_PROMPT.replace("{history}", &history_str)
SystemPromptLatestOnly(h) ==
  Replace(CHAT_SYSTEM_PROMPT, HistoryPlaceholder,
          HistoryStr(IF h = <<>> THEN h ELSE <<h[Len(h)]>>))
SystemPrompt(h) == Replace(CHAT_SYSTEM_PROMPT, HistoryPlaceholder, HistoryStr(h))

EnhancedQuery(q) ==
  <<"Research and answer the following question. [...] with sources:\n\n">> \o q


\* one entry of quick_search's numbered list, i the 0-based index
FormatResult0(i, r) ==
  <<ToString(i), ". **", r.title, "**\n   ", r.snippet,
    "\n   URL: ", r.url, "\n">>
FormatResult(i, r) ==
  <<ToString(i + 1), ". **", r.title, "**\n   ", r.snippet,
    "\n   URL: ", r.url, "\n">>

\* the text quick_search returns for the adapter's results
FormatResults(results) ==
  <<"## Search Results\n\n">>
  \o Join([k \in 1..Len(results) |-> FormatResult(k - 1, results[k])],
          <<"\n">>)

NoResultsFoundAnonymous(q) == <<"No results found.">>
NoResultsFound(q) == <<"No results found for: ">> \o q

(* ------------------------ external collaborators ----------------------- *)
\* texts the completion backend answers with
Responses == { <<"answer A">>, <<"answer B">> }

\* failures of the completion backend, as rendered by Display
ErrRefused == <<"error sending request: ", "connection refused">>
ErrNoModel == <<"model", " 'llama3.2' not found, try pulling it first">>
ErrTimeout == <<"operation timed out">>
BackendErrors == { ErrRefused, ErrNoModel, ErrTimeout }
MaxDepthError == <<"MaxDepthError: (reached limit: ", ToString(multi_turn), ")">>

\* what the search adapter can return
SearchResultSet ==
  { [title |-> "Rust", snippet |-> "A language", url |-> "https://rust-lang.org"],
    [title |-> "Tokio", snippet |-> "A runtime", url |-> "https://tokio.rs"] }
ResultLists ==
  UNION { [1..n -> SearchResultSet] : n \in 0..MaxResults }
SearchErrors == { <<"error sending request: ", "connection refused">>,
                  <<"error sending request for url (q=", "model",
                    "): ", "connection refused">>,
                  <<"failed to parse results">> }

(* -------------------------------- state -------------------------------- *)
VARIABLES
  pc,             \* position of the single task
  ret,            \* where the running agent operation returns to
  args,           \* Args: query, interactive, model, quick
  config,         \* Config handed to the agent (<<>> before it is loaded)
  validations,    \* number of times config.validate() has run
  agentBuilt,     \* ResearchAgent::new has run
  history,        \* ResearchAgent.history
  query,          \* the query argument of the running operation
  system_prompt,  \* chat: the rendered preamble
  enhanced_query, \* chat: the message sent to the backend
  turns,          \* backend round-trips of the running operation
  searches,       \* search-adapter calls of the running operation
  response,       \* chat: what agent.prompt(..).multi_turn(5) produced
  result,         \* the Result<String> the operation returned
  exit_code,      \* process status, meaningful when pc = "exit"
  output,         \* what the driver printed last
  hint,           \* the tip printed with the last error
  input,          \* run_interactive: the trimmed line
  eof,            \* stdin has reached end-of-file
  linesRead,      \* lines read so far
  chatCalls,      \* calls of chat made by the process
  qsCalls,        \* calls of quick_search made by the process
  calls,          \* harness: operations issued
  lastOp,         \* harness: the operation issued last
  histAtCall,     \* history when the running operation was called
  okLog,          \* (query, response) of every chat call that returned Ok
  clearAt,        \* Len(okLog) at the most recent clear_history
  search_results  \* quick_search: the Result the search adapter returned

vars == << pc, ret, args, config, validations, agentBuilt, history, query,
           system_prompt, enhanced_query, turns, searches, response, result,
           exit_code, output, hint, input, eof, linesRead, chatCalls, qsCalls,
           calls, lastOp, histAtCall, okLog, clearAt, search_results >>

driverVars == << args, config, validations, agentBuilt, exit_code, output,
                 hint, input, eof, linesRead, chatCalls, qsCalls >>
harnessVars == << calls, lastOp >>
chatLocals == << system_prompt, enhanced_query, response >>

None == <<>>
Some(x) == <<x>>

DefaultConfig ==
  [model |-> "llama3.2", host_ok |-> TRUE, max_search_results |-> MaxResults]

(* ------------------------- ResearchAgent::chat ------------------------- *)
\* lines 77-117: render the preamble from the history, build the agent and
\* the enhanced message
ChatBegin ==
  /\ pc = "chat"
  /\ system_prompt' = SystemPrompt(history)
  /\ enhanced_query' = EnhancedQuery(query)
  /\ turns' = 0
  /\ searches' = 0
  /\ response' = NoResult
  /\ histAtCall' = history
  /\ pc' = "prompt"
  /\ UNCHANGED << ret, history, query, result, okLog, clearAt >>
  /\ UNCHANGED driverVars
  /\ UNCHANGED harnessVars
  /\ UNCHANGED search_results

\* lines 119-122: one round-trip of agent.prompt(&enhanced_query)
\* .multi_turn(5): the backend answers, fails, or asks for web_search
BackendTurn ==
  /\ pc = "prompt"
  /\ turns < multi_turn
  /\ turns' = turns + 1
  /\ \/ \E t \in Responses :
          /\ response' = Ok(t)
          /\ pc' = "prompt_done"
          /\ UNCHANGED searches
     \/ \E e \in BackendErrors :
          /\ response' = Err(e)
          /\ pc' = "prompt_done"
          /\ UNCHANGED searches
     \/ /\ searches' = searches + 1
        /\ IF turns + 1 < multi_turn
           THEN /\ pc' = "prompt"
                /\ UNCHANGED response
           ELSE /\ pc' = "prompt_done"
                /\ response' = Err(MaxDepthError)
  /\ UNCHANGED << ret, history, query, system_prompt, enhanced_query, result,
                  histAtCall, okLog, clearAt >>
  /\ UNCHANGED driverVars
  /\ UNCHANGED harnessVars
  /\ UNCHANGED search_results

\* lines 125-130: self.history.push((query, response)); Ok(response)
PushEnhanced == Append(history, <<enhanced_query, response.val>>)
PushFront == << <<query, response.val>> >> \o history
Push == Append(history, <<query, response.val>>)

ChatOk ==
  /\ pc = "prompt_done"
  /\ response.ok
  /\ history' = Push
  /\ result' = Ok(response.val)
  /\ okLog' = Append(okLog, <<query, response.val>>)
  /\ pc' = ret
  /\ UNCHANGED << ret, query, turns, searches, histAtCall, clearAt >>
  /\ UNCHANGED chatLocals
  /\ UNCHANGED driverVars
  /\ UNCHANGED harnessVars
  /\ UNCHANGED search_results

\* line 123: .map_err(|e| anyhow!("Agent execution failed: {}", e))?
HistoryOnErrPush == Append(history, <<query, response.val>>)
HistoryOnErr == history

ChatErr ==
  /\ pc = "prompt_done"
  /\ ~response.ok
  /\ result' = Err(<<"Agent execution failed: ">> \o response.val)
  /\ history' = HistoryOnErr
  /\ pc' = ret
  /\ UNCHANGED << ret, query, turns, searches, histAtCall, okLog, clearAt >>
  /\ UNCHANGED chatLocals
  /\ UNCHANGED driverVars
  /\ UNCHANGED harnessVars
  /\ UNCHANGED search_results

(* -------------------- ResearchAgent::clear_history --------------------- *)
ClearedKeepFirst == IF history = <<>> THEN <<>> ELSE <<history[1]>>
Cleared == <<>>

clear_history ==
  /\ history' = Cleared
  /\ clearAt' = Len(okLog)

(* --------------------- ResearchAgent::quick_search --------------------- *)
\* lines 184-214: one call of the search adapter, then formatting; &self
QsHistoryCleared == <<>>
QsHistory == history

QuickSearch ==
  /\ pc = "quick_search"
  /\ turns' = 0
  /\ searches' = 1
  /\ histAtCall' = history
  /\ \/ \E e \in SearchErrors :
          /\ result' = Err(<<"Search failed: ">> \o e)
          /\ search_results' = Err(e)
     \/ \E rs \in ResultLists :
          /\ search_results' = Ok(rs)
          /\ result' = Ok(IF rs = <<>> THEN NoResultsFound(query)
                          ELSE FormatResults(rs))
  /\ history' = QsHistory
  /\ pc' = ret
  /\ UNCHANGED << ret, query, okLog, clearAt >>
  /\ UNCHANGED chatLocals
  /\ UNCHANGED driverVars
  /\ UNCHANGED harnessVars

(* ------------------- the agent under any call order -------------------- *)
Queries == { <<"h","i">>, <<"Q","u","i","t","?">>, <<HistoryPlaceholder>> }

AgentInit ==
  /\ pc = "idle"
  /\ ret = "idle"
  /\ args = [query |-> None, interactive |-> FALSE, model |-> None,
             quick |-> FALSE]
  /\ config = Some(DefaultConfig)
  /\ validations = 1
  /\ agentBuilt = TRUE
  /\ history = <<>>
  /\ query = <<>>
  /\ system_prompt = <<>>
  /\ enhanced_query = <<>>
  /\ turns = 0
  /\ searches = 0
  /\ response = NoResult
  /\ result = NoResult
  /\ exit_code = 0
  /\ output = "none"
  /\ hint = "none"
  /\ input = <<>>
  /\ eof = FALSE
  /\ linesRead = 0
  /\ chatCalls = 0
  /\ qsCalls = 0
  /\ calls = 0
  /\ lastOp = "new"
  /\ histAtCall = <<>>
  /\ okLog = <<>>
  /\ clearAt = 0
  /\ search_results = NoResult

CallChat ==
  /\ pc = "idle"
  /\ calls < MaxCalls
  /\ \E q \in Queries : query' = q
  /\ calls' = calls + 1
  /\ lastOp' = "chat"
  /\ pc' = "chat"
  /\ UNCHANGED << ret, history, turns, searches, result, histAtCall, okLog,
                  clearAt >>
  /\ UNCHANGED chatLocals
  /\ UNCHANGED driverVars
  /\ UNCHANGED search_results

CallClearHistory ==
  /\ pc = "idle"
  /\ calls < MaxCalls
  /\ clear_history
  /\ calls' = calls + 1
  /\ lastOp' = "clear_history"
  /\ histAtCall' = history
  /\ UNCHANGED << pc, ret, query, turns, searches, result, okLog >>
  /\ UNCHANGED chatLocals
  /\ UNCHANGED driverVars
  /\ UNCHANGED search_results

CallQuickSearch ==
  /\ pc = "idle"
  /\ calls < MaxCalls
  /\ \E q \in Queries : query' = q
  /\ calls' = calls + 1
  /\ lastOp' = "quick_search"
  /\ pc' = "quick_search"
  /\ UNCHANGED << ret, history, turns, searches, result, histAtCall, okLog,
                  clearAt >>
  /\ UNCHANGED chatLocals
  /\ UNCHANGED driverVars
  /\ UNCHANGED search_results

AgentNext ==
  \/ CallChat
  \/ CallClearHistory
  \/ CallQuickSearch
  \/ ChatBegin
  \/ BackendTurn
  \/ ChatOk
  \/ ChatErr
  \/ QuickSearch

AgentSpec == AgentInit /\ [][AgentNext]_vars

(* ------------------------------- main.rs ------------------------------- *)
\* command lines: QUERY, -i, -m, -q
ArgsSet ==
  [ query : { None, Some(<<>>), Some(<<"h","i">>) },
    interactive : BOOLEAN,
    model : { None, Some(""), Some("deepseek") },
    quick : BOOLEAN ]

\* lines the user can type; read_line keeps the newline
InputLines ==
  { <<"q","u","i","t","\n">>,
    <<" ","E","x","i","t"," ","\n">>,
    <<"c","l","e","a","r","\n">>,
    <<"C","L","E","A","R","\n">>,
    <<"\n">>,
    <<" ","\t","\n">>,
    <<"h","i","\n">>,
    <<" ","H","i","\n">> }

\* Config::validate: model non-empty, host a base URL, max results >= 1
ConfigValid(c) ==
  /\ c.model # ""
  /\ c.host_ok
  /\ c.max_search_results >= 1

\* the tip chosen from the error text, handle_result lines 224-230
HintSingleModelFirst(msg) ==
  IF Contains(msg, <<"model">>) THEN "install_model"
  ELSE IF Contains(msg, <<"connection refused">>) THEN "start_backend"
  ELSE "none"
HintSingle(msg) ==
  IF Contains(msg, <<"connection refused">>) THEN "start_backend"
  ELSE IF Contains(msg, <<"model">>) THEN "install_model"
  ELSE "none"

\* the tip chosen from the error text, run_interactive lines 198-202
HintInteractive(msg) ==
  IF Contains(msg, <<"connection refused">>) THEN "start_backend"
  ELSE IF Contains(msg, <<"model">>) THEN "install_model"
  ELSE "none"

Init ==
  /\ pc = "main"
  /\ ret = "none"
  /\ args \in ArgsSet
  /\ config = None
  /\ validations = 0
  /\ agentBuilt = FALSE
  /\ history = <<>>
  /\ query = <<>>
  /\ system_prompt = <<>>
  /\ enhanced_query = <<>>
  /\ turns = 0
  /\ searches = 0
  /\ response = NoResult
  /\ result = NoResult
  /\ exit_code = 0
  /\ output = "none"
  /\ hint = "none"
  /\ input = <<>>
  /\ eof = FALSE
  /\ linesRead = 0
  /\ chatCalls = 0
  /\ qsCalls = 0
  /\ calls = 0
  /\ lastOp = "none"
  /\ histAtCall = <<>>
  /\ okLog = <<>>
  /\ clearAt = 0
  /\ search_results = NoResult

agentVars == << ret, history, query, turns, searches, result, histAtCall,
                okLog, clearAt >>
ioVars == << output, hint, input, eof, linesRead >>

\* lines 96-104: parse the arguments, set up logging, Config::from_env()?
LoadConfig ==
  /\ pc = "main"
  /\ \/ /\ config' = Some(DefaultConfig)
        /\ pc' = "override"
        /\ UNCHANGED exit_code
     \/ /\ pc' = "exit"
        /\ exit_code' = 1
        /\ UNCHANGED config
  /\ UNCHANGED << args, validations, agentBuilt, chatCalls, qsCalls >>
  /\ UNCHANGED agentVars
  /\ UNCHANGED ioVars
  /\ UNCHANGED chatLocals
  /\ UNCHANGED harnessVars
  /\ UNCHANGED search_results

\* lines 111-114: if let Some(model) = args.model { config.model = model }
OverrideModelSkipped ==
  /\ pc = "override"
  /\ pc' = "validate"
  /\ UNCHANGED << args, config, validations, agentBuilt, exit_code,
                  chatCalls, qsCalls >>
  /\ UNCHANGED agentVars
  /\ UNCHANGED ioVars
  /\ UNCHANGED chatLocals
  /\ UNCHANGED harnessVars
  /\ UNCHANGED search_results

OverrideModel ==
  /\ pc = "override"
  /\ config' = IF args.model # None
               THEN Some([config[1] EXCEPT !.model = args.model[1]])
               ELSE config
  /\ pc' = "validate"
  /\ UNCHANGED << args, validations, agentBuilt, exit_code, chatCalls,
                  qsCalls >>
  /\ UNCHANGED agentVars
  /\ UNCHANGED ioVars
  /\ UNCHANGED chatLocals
  /\ UNCHANGED harnessVars
  /\ UNCHANGED search_results

\* line 117: config.validate()?
ValidateConfig ==
  /\ pc = "validate"
  /\ validations' = validations + 1
  /\ IF ConfigValid(config[1])
     THEN /\ pc' = "new"
          /\ UNCHANGED exit_code
     ELSE /\ pc' = "exit"
          /\ exit_code' = 1
  /\ UNCHANGED << args, config, agentBuilt, chatCalls, qsCalls >>
  /\ UNCHANGED agentVars
  /\ UNCHANGED ioVars
  /\ UNCHANGED chatLocals
  /\ UNCHANGED harnessVars
  /\ UNCHANGED search_results

\* line 126: ResearchAgent::new(config), agent.rs lines 66-74
NewAgent ==
  /\ pc = "new"
  /\ agentBuilt' = TRUE
  /\ history' = <<>>
  /\ pc' = "dispatch"
  /\ UNCHANGED << args, config, validations, exit_code, chatCalls, qsCalls >>
  /\ UNCHANGED << ret, query, turns, searches, result, histAtCall, okLog,
                  clearAt >>
  /\ UNCHANGED ioVars
  /\ UNCHANGED chatLocals
  /\ UNCHANGED harnessVars
  /\ UNCHANGED search_results

\* lines 129-150: interactive, else a single query (quick or full), else
\* the usage message and bail!("No query provided")
InteractiveUnlessQuery == args.interactive /\ args.query = None
InteractiveSelected == args.interactive
QuickSelectsChat == FALSE
QuickSelected == args.quick

Dispatch ==
  /\ pc = "dispatch"
  /\ IF InteractiveSelected
     THEN /\ pc' = "read"
          /\ UNCHANGED << ret, query, chatCalls, qsCalls, exit_code, output >>
     ELSE IF args.query # None
     THEN /\ query' = args.query[1]
          /\ ret' = "handle_result"
          /\ IF QuickSelected
             THEN /\ pc' = "quick_search"
                  /\ qsCalls' = qsCalls + 1
                  /\ UNCHANGED chatCalls
             ELSE /\ pc' = "chat"
                  /\ chatCalls' = chatCalls + 1
                  /\ UNCHANGED qsCalls
          /\ UNCHANGED << exit_code, output >>
     ELSE /\ output' = "usage"
          /\ pc' = "exit"
          /\ exit_code' = 1
          /\ UNCHANGED << ret, query, chatCalls, qsCalls >>
  /\ UNCHANGED << args, config, validations, agentBuilt >>
  /\ UNCHANGED << history, turns, searches, result, histAtCall, okLog,
                  clearAt >>
  /\ UNCHANGED << hint, input, eof, linesRead >>
  /\ UNCHANGED chatLocals
  /\ UNCHANGED harnessVars
  /\ UNCHANGED search_results

\* lines 211-235 and 141, 152-153: print the response, or the error and
\* its tip and return Err(e), which main propagates
FailureStatusZero == 1 - 1
FailureStatus == 1

HandleResult ==
  /\ pc = "handle_result"
  /\ IF result.ok
     THEN /\ output' = "results"
          /\ hint' = "none"
          /\ exit_code' = 0
     ELSE /\ output' = "error"
          /\ hint' = HintSingle(result.val)
          /\ exit_code' = FailureStatus
  /\ pc' = "exit"
  /\ UNCHANGED << args, config, validations, agentBuilt, chatCalls, qsCalls >>
  /\ UNCHANGED << input, eof, linesRead >>
  /\ UNCHANGED agentVars
  /\ UNCHANGED chatLocals
  /\ UNCHANGED harnessVars
  /\ UNCHANGED search_results

\* what the environment hands to read_line: a line, or nothing at the end
\* of the input
CommandCaseSensitive(line) == trim(line)
Command(line) == to_lowercase(trim(line))

\* lines 165-189: one pass of the loop up to the call of chat
ReadLine ==
  /\ pc = "read"
  /\ \E raw \in (IF eof \/ linesRead >= MaxLines THEN {} ELSE InputLines)
               \cup {<<>>} :
       /\ eof' = (raw = <<>>)
       /\ linesRead' = IF raw = <<>> THEN linesRead ELSE linesRead + 1
       /\ input' = trim(raw)
       /\ IF Command(raw) \in { <<"q","u","i","t">>, <<"e","x","i","t">> }
          THEN /\ output' = "goodbye"
               /\ pc' = "exit"
               /\ exit_code' = 0
               /\ UNCHANGED << ret, history, query, clearAt, histAtCall,
                               chatCalls >>
          ELSE IF Command(raw) = <<"c","l","e","a","r">>
          THEN /\ clear_history
               /\ histAtCall' = history
               /\ output' = "cleared"
               /\ pc' = "read"
               /\ UNCHANGED << ret, query, exit_code, chatCalls >>
          ELSE IF Command(raw) = <<>>
          THEN /\ pc' = "read"
               /\ UNCHANGED << ret, history, query, clearAt, histAtCall,
                               exit_code, output, chatCalls >>
          ELSE /\ query' = input'
               /\ ret' = "chat_returned"
               /\ pc' = "chat"
               /\ chatCalls' = chatCalls + 1
               /\ UNCHANGED << history, clearAt, histAtCall, exit_code,
                               output >>
  /\ UNCHANGED << args, config, validations, agentBuilt, qsCalls, hint >>
  /\ UNCHANGED << turns, searches, result, okLog >>
  /\ UNCHANGED chatLocals
  /\ UNCHANGED harnessVars
  /\ UNCHANGED search_results

\* lines 167, 170: flush()? or read_line()? fails with an I/O error
ReadLineFails ==
  /\ pc = "read"
  /\ ~eof
  /\ pc' = "exit"
  /\ exit_code' = 1
  /\ UNCHANGED << args, config, validations, agentBuilt, chatCalls, qsCalls >>
  /\ UNCHANGED ioVars
  /\ UNCHANGED agentVars
  /\ UNCHANGED chatLocals
  /\ UNCHANGED harnessVars
  /\ UNCHANGED search_results

\* lines 189-204: print the response, or the error and its tip; loop
AfterFailedChatExit == "exit"
AfterFailedChatUnlessRefused ==
  IF HintInteractive(result.val) = "start_backend" THEN "exit" ELSE "read"
AfterFailedChat == "read"

ChatReturned ==
  /\ pc = "chat_returned"
  /\ IF result.ok
     THEN /\ output' = "response"
          /\ hint' = "none"
          /\ pc' = "read"
     ELSE /\ output' = "error"
          /\ hint' = HintInteractive(result.val)
          /\ pc' = AfterFailedChat
  /\ exit_code' = IF pc' = "exit" THEN 1 ELSE exit_code
  /\ UNCHANGED << args, config, validations, agentBuilt, chatCalls, qsCalls >>
  /\ UNCHANGED << input, eof, linesRead >>
  /\ UNCHANGED agentVars
  /\ UNCHANGED chatLocals
  /\ UNCHANGED harnessVars
  /\ UNCHANGED search_results

Next ==
  \/ LoadConfig
  \/ OverrideModel
  \/ ValidateConfig
  \/ NewAgent
  \/ Dispatch
  \/ HandleResult
  \/ ReadLine
  \/ ReadLineFails
  \/ ChatReturned
  \/ ChatBegin
  \/ BackendTurn
  \/ ChatOk
  \/ ChatErr
  \/ QuickSearch

Spec == Init /\ [][Next]_vars

(* ------------------------------ properties ----------------------------- *)
InChat == pc \in {"prompt", "prompt_done"}
Returned(op) == pc = "idle" /\ lastOp = op

\* C1: after N successful chat calls on a fresh agent, with no
\* clear_history in between, the history has N entries and entry i is the
\* pair (query passed to the i-th call, response it returned), the query
\* as passed and not the enhanced message.
C1_HistoryIsTheSuccessfulCalls ==
  clearAt = 0 =>
    /\ Len(history) = Len(okLog)
    /\ \A i \in 1..Len(okLog) :
         /\ history[i][1] = okLog[i][1]
         /\ history[i][2] = okLog[i][2]
         /\ history[i][1] # EnhancedQuery(okLog[i][1])

C1_Witness ==
  /\ Returned("chat")
  /\ clearAt = 0
  /\ calls = 2
  /\ Len(history) = 2
  /\ history[1] # history[2]

\* C2: a chat call that fails leaves the history as it was when the call
\* was made; the history is not written while the backend round-trips of
\* the call are running, and every stored turn is a successful exchange.
C2_FailedChatKeepsHistory ==
  /\ InChat => history = histAtCall
  /\ (Returned("chat") /\ ~result.ok) => history = histAtCall
  /\ \A i \in 1..Len(history) :
       \E j \in 1..Len(okLog) : okLog[j] = history[i]

C2_Witness ==
  /\ Returned("chat")
  /\ ~result.ok
  /\ Len(history) = 1
  /\ calls = 2

\* C3: clear_history leaves the history empty whatever its length was,
\* returns normally without producing an error, and a second clear (or a
\* clear of an empty history) changes nothing.
C3_ClearHistoryEmptiesAndIsIdempotent ==
  [][ (lastOp' = "clear_history" /\ calls' = calls + 1) =>
        /\ history' = <<>>
        /\ pc' = "idle"
        /\ result' = result
        /\ (history = <<>> => history' = history)
        /\ (lastOp = "clear_history" => history' = history) ]_vars

C3_Witness ==
  /\ Returned("clear_history")
  /\ Len(histAtCall) = 2
  /\ history = <<>>

C5_FailureContinuesLoopOrExitsNonZero ==
  [][ /\ (pc = "chat_returned" /\ ~result.ok) =>
           /\ pc' = "read"
           /\ output' = "error"
           /\ history' = history
           /\ history = histAtCall
      /\ (pc = "handle_result" /\ ~result.ok) =>
           /\ pc' = "exit"
           /\ output' = "error"
           /\ exit_code' # 0 ]_vars

C5_Witness ==
  /\ pc = "chat"
  /\ linesRead = 2
  /\ output = "error"
  /\ ~result.ok

\* the step of run_interactive that has read a line
LineRead == pc = "read" /\ linesRead' = linesRead + 1
CallsChatWith(q) ==
  /\ pc' = "chat"
  /\ query' = q
  /\ chatCalls' = chatCalls + 1
  /\ history' = history
NoAgentCall ==
  /\ chatCalls' = chatCalls
  /\ qsCalls' = qsCalls
  /\ turns' = turns
  /\ searches' = searches

\* C6 as stated: the commands are the literal texts clear, quit and exit;
\* every other non-blank line goes to chat.
C6_LiteralCommands ==
  [][ LineRead =>
        IF input' = <<"c","l","e","a","r">>
        THEN history' = <<>> /\ pc' = "read" /\ NoAgentCall
        ELSE IF input' \in { <<"q","u","i","t">>, <<"e","x","i","t">> }
        THEN pc' = "exit" /\ NoAgentCall
        ELSE IF input' = <<>>
        THEN pc' = "read" /\ history' = history /\ NoAgentCall
        ELSE CallsChatWith(input') ]_vars

\* C6 (amended): a line read is trimmed and compared ignoring letter
\* case: clear invokes clear_history and calls no backend, quit or exit
\* ends the loop, a blank line changes nothing, and every other line is
\* passed to chat, trimmed and with its own letter case.
C6_CommandsIgnoreCase ==
  [][ LineRead =>
        IF to_lowercase(input') = <<"c","l","e","a","r">>
        THEN history' = <<>> /\ pc' = "read" /\ NoAgentCall
        ELSE IF to_lowercase(input') \in
                  { <<"q","u","i","t">>, <<"e","x","i","t">> }
        THEN pc' = "exit" /\ exit_code' = 0 /\ history' = history
             /\ NoAgentCall
        ELSE IF input' = <<>>
        THEN pc' = "read" /\ history' = history /\ output' = output
             /\ NoAgentCall
        ELSE CallsChatWith(input') ]_vars

C6_Witness ==
  /\ pc = "read"
  /\ output = "cleared"
  /\ input = <<"C","L","E","A","R">>
  /\ Len(histAtCall) = 1
  /\ history = <<>>

SingleQueryRan == agentBuilt /\ ~args.interactive /\ args.query # None

\* C7: the process exits non-zero when neither a query nor interactive
\* mode is given and when the single query fails; it exits zero when the
\* single query succeeds and when interactive mode ends on quit or exit.
\* A single query calls quick_search if the quick flag is set and chat
\* otherwise, one of them and once.
C7_ExitStatusAndDispatch ==
  /\ (pc = "exit" /\ ~args.interactive /\ args.query = None)
       => exit_code # 0
  /\ (pc = "exit" /\ SingleQueryRan /\ ~result.ok) => exit_code # 0
  /\ (pc = "exit" /\ SingleQueryRan /\ result.ok) => exit_code = 0
  /\ (pc = "exit" /\ output = "goodbye") => exit_code = 0
  /\ (~args.interactive) => chatCalls + qsCalls <= 1
  /\ (pc \in {"handle_result", "exit"} /\ SingleQueryRan) =>
       /\ args.quick => (qsCalls = 1 /\ chatCalls = 0)
       /\ ~args.quick => (chatCalls = 1 /\ qsCalls = 0)

C7_Witness ==
  /\ pc = "exit"
  /\ SingleQueryRan
  /\ args.quick
  /\ qsCalls = 1
  /\ result.ok
  /\ exit_code = 0

\* C8: quick_search leaves the history as it was, whether it succeeds,
\* finds nothing or fails, and it calls the search adapter once and the
\* completion backend not at all.
C8_QuickSearchKeepsHistory ==
  Returned("quick_search") =>
    /\ history = histAtCall
    /\ searches = 1
    /\ turns = 0

C8_Witness ==
  /\ Returned("quick_search")
  /\ Len(history) = 2
  /\ result = Ok(NoResultsFound(query))

\* C9: when chat renders the preamble from an empty history, the
\* placeholder is replaced by "No previous conversation.", not by the
\* empty string, and the preamble no longer contains the placeholder.
C9_EmptyHistoryRendersSentinel ==
  (InChat /\ histAtCall = <<>>) =>
    /\ system_prompt = << CHAT_SYSTEM_PROMPT[1],
                          "No previous conversation.",
                          CHAT_SYSTEM_PROMPT[3] >>
    /\ ~Contains(system_prompt, <<"{history}">>)

C9_Witness ==
  /\ pc = "prompt"
  /\ histAtCall = <<>>
  /\ okLog # <<>>
  /\ clearAt = 1

\* the history block inside the rendered preamble
RenderedBlock == SubSeq(system_prompt, 2, Len(system_prompt) - 1)
TurnLen(turn) == 3 + Len(turn[1]) + 1 + Len(turn[2])
RECURSIVE TurnStart(_, _)
TurnStart(h, i) ==
  IF i = 1 THEN 1 ELSE TurnStart(h, i - 1) + TurnLen(h[i - 1]) + 1

\* C10: for a history of n >= 1 turns the block holds, for i = 1..n in
\* this order, the label [Turn i], then the query and the response of
\* turn i; consecutive turns are separated by a blank line and nothing
\* follows turn n.
C10_TurnsRenderedInOrder ==
  (InChat /\ histAtCall # <<>>) =>
    LET h == histAtCall
        b == RenderedBlock
        n == Len(h)
    IN /\ \A i \in 1..n :
            LET p == TurnStart(h, i)
                q == h[i][1]
                a == h[i][2]
            IN /\ p + TurnLen(h[i]) - 1 <= Len(b)
               /\ SubSeq(b, p, p + 2) = <<"[Turn ", ToString(i), "]\nUser: ">>
               /\ SubSeq(b, p + 3, p + 2 + Len(q)) = q
               /\ b[p + 3 + Len(q)] = "\nAI: "
               /\ SubSeq(b, p + 4 + Len(q), p + TurnLen(h[i]) - 1) = a
               /\ i < n => /\ Len(b) >= p + TurnLen(h[i])
                           /\ b[p + TurnLen(h[i])] = "\n\n"
       /\ Len(b) = TurnStart(h, n) + TurnLen(h[n]) - 1

C10_Witness ==
  /\ pc = "prompt"
  /\ Len(histAtCall) = 2
  /\ histAtCall[1] # histAtCall[2]
  /\ histAtCall[1][1] = <<"{history}">>

\* the places of the numbered entries in a text quick_search returned
EntryMarks(v) == { p \in 1..Len(v) : v[p] = ". **" }

\* C11: when the adapter returns K >= 1 results, quick_search returns K
\* numbered entries, numbered 1..K in the adapter's order with none
\* dropped or merged, and entry i holds the title, the snippet and the
\* URL of the adapter's i-th result.
C11_OneEntryPerResultInOrder ==
  (Returned("quick_search") /\ search_results.ok
     /\ search_results.val # <<>>) =>
    LET rs == search_results.val
        K == Len(rs)
        v == result.val
    IN /\ result.ok
       /\ Cardinality(EntryMarks(v)) = K
       /\ Len(v) = 9 * K
       /\ \A i \in 1..K :
            LET p == 9 * (i - 1) + 2
            IN /\ v[p] = ToString(i)
               /\ v[p + 1] = ". **"
               /\ v[p + 2] = rs[i].title
               /\ v[p + 4] = rs[i].snippet
               /\ v[p + 5] = "\n   URL: "
               /\ v[p + 6] = rs[i].url

C11_Witness ==
  /\ Returned("quick_search")
  /\ search_results.ok
  /\ Len(search_results.val) = 2
  /\ search_results.val[1] = search_results.val[2]
  /\ history # <<>>

\* C12: when the adapter returns no result, quick_search returns Ok with
\* a message that contains the query as given and no numbered entry.
C12_NoResultsNamesTheQuery ==
  (Returned("quick_search") /\ search_results = Ok(<<>>)) =>
    /\ result.ok
    /\ Contains(result.val, query)
    /\ EntryMarks(result.val) = {}
    /\ ~Contains(result.val, <<"## Search Results\n\n">>)

C12_Witness ==
  /\ Returned("quick_search")
  /\ search_results = Ok(<<>>)
  /\ query = <<"Q","u","i","t","?">>
  /\ result.ok

\* the signatures the classifier looks for in the text of a failure
HasRefused(msg) == Contains(msg, <<"connection refused">>)
HasModel(msg) == Contains(msg, <<"model">>)
HintFor(msg, h) ==
  /\ HasRefused(msg) => h = "start_backend"
  /\ (HasModel(msg) /\ ~HasRefused(msg)) => h = "install_model"
  /\ (~HasModel(msg) /\ ~HasRefused(msg)) => h = "none"

\* C13: in single-query and in interactive mode alike, a failure whose
\* text contains "connection refused" gets the tip to start the backend,
\* one whose text contains "model" (and not "connection refused") the tip
\* to install the model, and a failure with neither text gets no tip.
C13_HintFollowsSignature ==
  [][ /\ (pc = "handle_result" /\ ~result.ok) => HintFor(result.val, hint')
      /\ (pc = "chat_returned" /\ ~result.ok) => HintFor(result.val, hint')
    ]_vars

C13_Witness ==
  /\ pc = "exit"
  /\ output = "error"
  /\ HasRefused(result.val)
  /\ HasModel(result.val)
  /\ hint = "start_backend"

\* C14: the tip is presentation only.  For every failure, whatever its
\* text and whichever tip it gets, handle_result hands back the error it
\* received and the process exits with status 1, and run_interactive
\* keeps the error, the history and the exit status and reads on.
C14_HintDoesNotSteer ==
  [][ /\ (pc = "handle_result" /\ ~result.ok) =>
           /\ pc' = "exit"
           /\ exit_code' = 1
           /\ result' = result
           /\ history' = history
      /\ (pc = "chat_returned" /\ ~result.ok) =>
           /\ pc' = "read"
           /\ exit_code' = exit_code
           /\ result' = result
           /\ history' = history
           /\ chatCalls' = chatCalls ]_vars

C14_Witness ==
  /\ pc = "read"
  /\ output = "error"
  /\ hint = "start_backend"
  /\ ~result.ok
  /\ HasRefused(result.val)

\* positions of main after ResearchAgent::new
AfterNew ==
  pc \in { "dispatch", "read", "chat", "prompt", "prompt_done",
           "chat_returned", "quick_search", "handle_result" }

\* C15: the configuration is loaded, then the -m override is applied,
\* then it is validated, once; the agent is constructed and chat or
\* quick_search called only after a successful validation, so the model
\* validated and used is the overridden one; when loading or validation
\* fails the process exits with a failure and no agent exists.
C15_StartupOrder ==
  /\ validations <= 1
  /\ config = None => (validations = 0 /\ ~agentBuilt)
  /\ validations = 1 =>
       (args.model # None => config[1].model = args.model[1])
  /\ agentBuilt => (validations = 1 /\ ConfigValid(config[1]))
  /\ (AfterNew \/ chatCalls + qsCalls > 0) => agentBuilt
  /\ (pc = "exit" /\ ~agentBuilt) =>
       (exit_code # 0 /\ chatCalls + qsCalls = 0)

C15_Witness ==
  /\ agentBuilt
  /\ validations = 1
  /\ args.model = Some("deepseek")
  /\ config[1].model = "deepseek"
  /\ chatCalls = 1
  /\ pc = "prompt"

\* the successful chat calls since the most recent clear_history
SinceClear == SubSeq(okLog, clearAt + 1, Len(okLog))

\* C16: after any interleaving of successful and failed chat calls,
\* quick_search calls and clear_history calls, the history is the
\* sequence of (query, response) pairs of the chat calls that succeeded
\* since the most recent clear_history, in call order, and the first
\* turn rendered from it is numbered 1.
C16_HistoryIsSuccessesSinceClear ==
  /\ clearAt <= Len(okLog)
  /\ Len(history) = Len(okLog) - clearAt
  /\ \A i \in 1..Len(history) : history[i] = okLog[clearAt + i]
  /\ (InChat /\ histAtCall # <<>>) =>
       SubSeq(RenderedBlock, 1, 3) = <<"[Turn ", "1", "]\nUser: ">>

C16_Witness ==
  /\ Returned("chat")
  /\ Len(okLog) = 2
  /\ clearAt = 1
  /\ history = <<okLog[2]>>
  /\ okLog[1] # okLog[2]

\* the places of the turn labels in the rendered history block
TurnLabels == { p \in 1..Len(RenderedBlock) : RenderedBlock[p] = "[Turn " }

\* C17: the preamble of a chat call shows the history as it was before
\* the call: its turns are exactly the chat calls that succeeded since the
\* last clear and before this call, so neither the query of this call
\* nor the query of an earlier failed call is among them.
C17_PreambleShowsEarlierTurnsOnly ==
  InChat =>
    LET h == SinceClear
        b == RenderedBlock
    IN /\ Cardinality(TurnLabels) = Len(h)
       /\ h = <<>> => b = <<"No previous conversation.">>
       /\ \A i \in 1..Len(h) :
            LET p == TurnStart(h, i)
            IN /\ p \in TurnLabels
               /\ b[p + 1] = ToString(i)
               /\ SubSeq(b, p + 3, p + 2 + Len(h[i][1])) = h[i][1]
               /\ SubSeq(b, p + 4 + Len(h[i][1]), p + TurnLen(h[i]) - 1)
                    = h[i][2]

C17_Witness ==
  /\ pc = "prompt"
  /\ calls = 3
  /\ ~result.ok
  /\ Len(okLog) = 1
  /\ clearAt = 0
  /\ query # okLog[1][1]
  /\ Cardinality(TurnLabels) = 1

\* C18: every call of chat the driver makes, in single-query and in
\* interactive mode, passes a non-empty query.
C18_ChatQueryNeverEmpty ==
  pc = "chat" => query # <<>>

\* C19: once the input of interactive mode has ended, the loop has
\* exited or can still take a step that changes the state: it does not
\* stay in the loop forever.
C19_LoopEndsWithInput ==
  eof => (pc = "exit" \/ ENABLED <<Next>>_vars)

InChatCall == pc \in {"chat", "prompt", "prompt_done", "chat_returned"}

\* C20: with -i on the command line, whatever else is on it, the process
\* never calls quick_search and never reaches handle_result, and every
\* chat call is made by the read-loop with the line just read: the
\* positional query is not executed.
C20_InteractiveTakesPrecedence ==
  args.interactive =>
    /\ qsCalls = 0
    /\ pc \notin {"quick_search", "handle_result"}
    /\ chatCalls <= linesRead
    /\ InChatCall => (ret = "chat_returned" /\ query = input)
    /\ (pc = "exit" /\ agentBuilt /\ linesRead = 0) => chatCalls = 0

C20_Witness ==
  /\ args.interactive
  /\ args.quick
  /\ args.query = Some(<<"h","i">>)
  /\ pc = "exit"
  /\ output = "goodbye"
  /\ linesRead = 1
  /\ chatCalls = 0

=============================================================================
